---- MODULE Spec2Model ----
(***************************************************************************)
(* Model of ssslogger (src/src/index.ts): the safe serializer              *)
(* (stringify), the error normalizer (serializeError), the entry formatter *)
(* (formatMessage) and the dispatch engine (createLogger / logAtLevel).    *)
(*                                                                         *)
(* JavaScript values are modelled as tagged records.  Objects that exist   *)
(* before a log call (payloads, thrown errors) live in Heap and are named  *)
(* by identity (Ref); objects the library creates while it runs are        *)
(* literals (Lit) and are never identical to anything seen before.         *)
(* The text produced by JSON.stringify is modelled by its JSON syntax      *)
(* tree (JNull, JStr, JNum, JObj, JArr).                                   *)
(***************************************************************************)
EXTENDS Integers, Sequences, FiniteSets, TLC

(***************************************************************************)
(* Bounds of the model.                                                    *)
(***************************************************************************)
MaxCalls == 1
MaxHooks == 2
MaxDepth == 9
MaxTasks == 3

(***************************************************************************)
(* The state of the program and of its observer.                           *)
(***************************************************************************)
VARIABLES
    config,     \* the logger's configuration captured by createLogger
    clock,      \* the wall clock
    pc,         \* "idle", or "hooks" while logAtLevel is in its hook loop
    args,       \* the arguments of the current call of logAtLevel
    entry,      \* the LogHookArgs object of the current call
    idx,        \* position of the hook loop in config.hooks
    reads,      \* number of clock reads made by the current call
    console,    \* the observed writes to the console streams, in order
    hookLog,    \* the observed hook invocations, in order
    result,     \* how the last call ended: "returned" or "threw"
    ncalls,     \* number of calls made so far
    pending,    \* the asynchronous tasks scheduled and not yet run
    peer,       \* the closure of a second logger, created independently
    subject,    \* the value handed to a function called on its own
    outcome,    \* which function was called on subject, and what it gave
    heap,       \* the caller's objects as they are now
    promises    \* the promises returned by asynchronous hooks, in order

vars == <<config, clock, pc, args, entry, idx, reads, console, hookLog,
          result, ncalls, pending, peer, subject, outcome, heap, promises>>

(***************************************************************************)
(* JavaScript values.                                                      *)
(***************************************************************************)
Undefined == [t |-> "undefined"]
Null == [t |-> "null"]
Str(s) == [t |-> "string", s |-> s]
Num(n) == [t |-> "number", n |-> n]
Ref(id) == [t |-> "ref", id |-> id]
Lit(fields) == [t |-> "lit", fields |-> fields]
\* The string returned by JSON.stringify: the text of the JSON tree j.
Text(j) == [t |-> "text", j |-> j]

\* An own property of a heap object: a data property holding v, or an
\* accessor whose getter throws v.
Data(k, v) == [k |-> k, enum |-> TRUE, get |-> FALSE, v |-> v]
Hidden(k, v) == [k |-> k, enum |-> FALSE, get |-> FALSE, v |-> v]
Getter(k, v) == [k |-> k, enum |-> TRUE, get |-> TRUE, v |-> v]

PlainObject(props) == [kind |-> "object", props |-> props]
ArrayObject(props) == [kind |-> "array", props |-> props]
ErrorObject(props) == [kind |-> "error", props |-> props]

\* new Error(message): message and stack are own, non-enumerable; name is
\* inherited from Error.prototype.
NewError(message, extra) ==
    ErrorObject(<<Hidden("message", Str(message)),
                  Hidden("stack", Str("Error: " \o message))>> \o extra)

(***************************************************************************)
(* The objects a caller or a hook can hand to the library.                 *)
(***************************************************************************)
Heap ==
    [ user     |-> PlainObject(<<Data("userId", Num(123))>>),
      \* const a = { key: 'value' }; a.self = a
      circular |-> PlainObject(<<Data("key", Str("value")),
                                 Data("self", Ref("circular"))>>),
      \* const s = { n: 1 }; const d = { self: d, x: s, y: s }
      shared   |-> PlainObject(<<Data("n", Num(1))>>),
      diamond  |-> PlainObject(<<Data("self", Ref("diamond")),
                                 Data("x", Ref("shared")),
                                 Data("y", Ref("shared"))>>),
      \* { x: s, y: s }
      twice    |-> PlainObject(<<Data("x", Ref("shared")),
                                 Data("y", Ref("shared"))>>),
      \* const l = { key: 'value' }; l.list = [l, 1]
      listed   |-> PlainObject(<<Data("key", Str("value")),
                                 Data("list", Ref("list"))>>),
      list     |-> ArrayObject(<<Data("0", Ref("listed")),
                                 Data("1", Num(1))>>),
      \* { get throwsError() { throw new Error('test logger error') } }
      badObj   |-> PlainObject(<<Getter("throwsError", Ref("plainErr"))>>),
      \* { get throwsError() { throw selfErr } }
      worseObj |-> PlainObject(<<Getter("throwsError", Ref("selfErr"))>>),
      \* { a: null, b: undefined }, also nested
      nullish  |-> PlainObject(<<Data("a", Null), Data("b", Undefined)>>),
      nested   |-> PlainObject(<<Data("b", Undefined),
                                 Data("inner", Ref("nullish")),
                                 Data("c", Null),
                                 Data("items", Ref("sparse"))>>),
      sparse   |-> ArrayObject(<<Data("0", Ref("nullish")),
                                 Data("1", Num(2))>>),
      \* { error, request: { id: 1, failure }, errors: [ ... ] }
      errPayload |-> PlainObject(<<Data("error", Ref("codeErr")),
                                   Data("request", Ref("request")),
                                   Data("errors", Ref("errList"))>>),
      request  |-> PlainObject(<<Data("id", Num(1)),
                                 Data("failure", Ref("outerErr"))>>),
      errList  |-> ArrayObject(<<Data("0", Ref("plainErr")),
                                 Data("1", Ref("namedErr"))>>),
      \* Object.assign(new Error('boom'), { code: 'E_BROKEN', status: 500 })
      codeErr  |-> NewError("boom", <<Data("code", Str("E_BROKEN")),
                                      Data("status", Num(500))>>),
      \* Object.assign(new Error('boom'), { name: 'CustomError' })
      namedErr |-> NewError("boom", <<Data("name", Str("CustomError"))>>),
      \* an error whose message and stack were redefined as enumerable
      shownErr |-> ErrorObject(<<Data("message", Str("shown")),
                                 Data("stack", Str("Error: shown")),
                                 Data("code", Num(7))>>),
      \* const outer = new Error('outer'); outer.cause = plainErr
      outerErr |-> NewError("outer", <<Data("cause", Ref("plainErr"))>>),
      \* new Error('top', { cause: outerErr })
      topErr   |-> NewError("top", <<Hidden("cause", Ref("outerErr"))>>),
      \* new Error('failed', { cause: ... }) with causes that are not errors
      strCauseErr  |-> NewError("failed", <<Hidden("cause", Str("timeout"))>>),
      objCauseErr  |-> NewError("failed", <<Hidden("cause", Ref("user"))>>),
      nullCauseErr |-> NewError("failed", <<Data("cause", Null)>>),
      plainErr |-> NewError("boom", <<>>),
      \* const e = new Error('boom'); e.self = e
      selfErr  |-> NewError("boom", <<Data("self", Ref("selfErr"))>>),
      \* { id: 1, err: selfErr }
      selfErrPayload |-> PlainObject(<<Data("id", Num(1)),
                                       Data("err", Ref("selfErr"))>>),
      \* const a = new Error('a'), b = new Error('b', { cause: a }); a.cause = b
      loopErrA |-> NewError("a", <<Hidden("cause", Ref("loopErrB"))>>),
      loopErrB |-> NewError("b", <<Hidden("cause", Ref("loopErrA"))>>),
      \* Object.assign(new Error('boom'), { code: 'E_ODD', toString: 'x',
      \*                                    constructor: 'y', hasOwnProperty: 'z' })
      oddErr   |-> NewError("boom", <<Data("code", Str("E_ODD")),
                                      Data("toString", Str("x")),
                                      Data("constructor", Str("y")),
                                      Data("hasOwnProperty", Str("z"))>>),
      \* an error with an own enumerable accessor that throws the error
      getErr   |-> NewError("boom", <<Getter("detail", Ref("getErr"))>>),
      \* what the engine raises when the call stack is exhausted
      rangeErr |-> [kind |-> "error",
                    props |-> <<Hidden("message", Str("Maximum call stack size exceeded")),
                                Hidden("stack", Str("RangeError: Maximum call stack size exceeded"))>>],
      typeErr  |-> [kind |-> "error",
                    props |-> <<Hidden("message", Str("Converting circular structure to JSON")),
                                Hidden("stack", Str("TypeError: Converting circular structure to JSON"))>>]
    ]

IsRef(v) == v.t = "ref"
IsLit(v) == v.t = "lit"
\* typeof v === 'object' && v !== null
IsObject(v) == v.t \in {"ref", "lit"}
\* v instanceof Error
IsError(v) == IsRef(v) /\ Heap[v.id].kind = "error"
IsArray(v) == IsRef(v) /\ Heap[v.id].kind = "array"

\* Error.prototype.name for the errors of Heap.
ProtoName(id) ==
    CASE id = "rangeErr" -> "RangeError"
      [] id = "typeErr" -> "TypeError"
      [] OTHER -> "Error"

\* Names every object inherits from Object.prototype.
ObjectPrototypeKeys ==
    {"constructor", "toString", "toLocaleString", "valueOf", "hasOwnProperty",
     "isPrototypeOf", "propertyIsEnumerable", "__proto__"}

(***************************************************************************)
(* Outcomes of an evaluation: a value, or a thrown value.                  *)
(***************************************************************************)
Ok(v) == [st |-> "ok", v |-> v]
Throw(v) == [st |-> "throw", v |-> v]

\* The own property k of heap object id, as a sequence of at most one.
OwnProps(id, k) == SelectSeq(Heap[id].props, LAMBDA p : p.k = k)

\* value[k] for a heap object: runs the getter of an accessor property.
GetProp(id, k) ==
    IF OwnProps(id, k) # <<>>
    THEN LET p == OwnProps(id, k)[1]
         IN IF p.get THEN Throw(p.v) ELSE Ok(p.v)
    ELSE IF Heap[id].kind = "error" /\ k = "name"
         THEN Ok(Str(ProtoName(id)))
         ELSE Ok(Undefined)

\* Object.entries(value): the own enumerable properties, in insertion
\* order; reading an accessor runs its getter.
EnumerableProps(id) == SelectSeq(Heap[id].props, LAMBDA p : p.enum)

ObjectEntries(id) ==
    LET ps == EnumerableProps(id)
        throwing == {i \in 1..Len(ps) : ps[i].get}
    IN IF throwing # {}
       THEN Throw(ps[CHOOSE i \in throwing : \A j \in throwing : i <= j].v)
       ELSE Ok([i \in 1..Len(ps) |-> <<ps[i].k, ps[i].v>>])

\* String(value): Object.prototype.toString for a plain object,
\* Array.prototype.join for an array, Error.prototype.toString for an error.
RECURSIVE StringOf(_)
RECURSIVE JoinElements(_, _)

\* An element of a joined array: undefined and null give the empty string.
ElementString(v) == IF v.t \in {"undefined", "null"} THEN "" ELSE StringOf(v)

JoinElements(props, i) ==
    IF i > Len(props) THEN ""
    ELSE (IF i > 1 THEN "," ELSE "") \o ElementString(props[i].v)
            \o JoinElements(props, i + 1)

StringOf(v) ==
    CASE v.t = "string" -> v.s
      [] v.t = "number" -> ToString(v.n)
      [] v.t = "undefined" -> "undefined"
      [] v.t = "null" -> "null"
      [] IsRef(v) /\ Heap[v.id].kind = "object" -> "[object Object]"
      [] IsRef(v) /\ Heap[v.id].kind = "array" ->
            JoinElements(Heap[v.id].props, 1)
      [] IsRef(v) /\ Heap[v.id].kind = "error" ->
            GetProp(v.id, "name").v.s \o ": " \o GetProp(v.id, "message").v.s

Keys(fields) == {fields[i][1] : i \in 1..Len(fields)}

\* serialized[key] = value on an object literal: an existing key keeps its
\* position, a new key is appended.
SetField(fields, k, v) ==
    IF k \in Keys(fields)
    THEN [i \in 1..Len(fields) |->
            IF fields[i][1] = k THEN <<k, v>> ELSE fields[i]]
    ELSE Append(fields, <<k, v>>)

\* key in serialized
KeyIn(k, fields) == k \in Keys(fields) \/ k \in ObjectPrototypeKeys

\* The loop over Object.entries(err) of serializeError.
RECURSIVE CopyEntries(_, _, _)
CopyEntries(entries, i, fields) ==
    IF i > Len(entries) THEN fields
    ELSE CopyEntries(entries, i + 1,
            IF KeyIn(entries[i][1], fields) THEN fields
            ELSE SetField(fields, entries[i][1], entries[i][2]))

(***************************************************************************)
(* serializeError(err).  d is the call-stack depth left: running out of    *)
(* it raises the engine's RangeError.                                      *)
(***************************************************************************)
\* The first thrown outcome of a sequence of outcomes, if any.
FirstThrow(outcomes) ==
    LET throwing == {i \in 1..Len(outcomes) : outcomes[i].st = "throw"}
    IN  IF throwing = {} THEN 0
        ELSE CHOOSE i \in throwing : \A j \in throwing : i <= j

\* The reads serializeError makes before it looks at the cause, in order:
\* err.name, err.message, err.stack, Object.entries(err).
ErrorReads(id) ==
    <<GetProp(id, "name"), GetProp(id, "message"), GetProp(id, "stack"),
      ObjectEntries(id)>>

\* Faulty variant: the name is taken from Error.prototype, not from err.
CopyOwnPropertiesProtoName(rs) ==
    IF FirstThrow(rs) # 0 THEN rs[FirstThrow(rs)]
    ELSE Ok(CopyEntries(rs[4].v, 1,
                <<<<"name", Str("Error")>>, <<"message", rs[2].v>>,
                  <<"stack", rs[3].v>>>>))

\* The serialized object after the copy loop, given those reads.
CopyOwnProperties(rs) ==
    IF FirstThrow(rs) # 0 THEN rs[FirstThrow(rs)]
    ELSE Ok(CopyEntries(rs[4].v, 1,
                <<<<"name", rs[1].v>>, <<"message", rs[2].v>>,
                  <<"stack", rs[3].v>>>>))

\* serialized.cause = <the serialized inner error>
SetCause(fields, inner) ==
    IF inner.st = "throw" THEN inner
    ELSE Ok(Lit(SetField(fields, "cause", inner.v)))

RECURSIVE serializeError(_, _)

\* Faulty variant of the cause handling: the cause is always copied as is.
HandleCauseShallow(serialized, cause, d) ==
    IF serialized.st = "throw" THEN serialized
    ELSE IF cause.st = "throw" THEN cause
    ELSE IF cause.v.t = "undefined" THEN Ok(Lit(serialized.v))
    ELSE Ok(Lit(SetField(serialized.v, "cause", cause.v)))

\* Faulty variant of serializeError: every value is treated as a non-error
\* and its message is not converted to a string.
serializeErrorRaw(err, d) ==
    Ok(Lit(<<<<"name", Str("NonError")>>, <<"message", err>>>>))

\* The cause handling, given the serialized object so far and err.cause.
HandleCause(serialized, cause, d) ==
    IF serialized.st = "throw" THEN serialized
    ELSE IF cause.st = "throw" THEN cause
    ELSE IF cause.v.t = "undefined" THEN Ok(Lit(serialized.v))
    ELSE IF IsError(cause.v)
    THEN SetCause(serialized.v, serializeError(cause.v, d - 1))
    ELSE Ok(Lit(SetField(serialized.v, "cause", cause.v)))

serializeError(err, d) ==
    IF d = 0 THEN Throw(Ref("rangeErr"))
    ELSE IF ~IsError(err)
    THEN Ok(Lit(<<<<"name", Str("NonError")>>,
                  <<"message", Str(StringOf(err))>>>>))
    ELSE HandleCause(CopyOwnProperties(ErrorReads(err.id)),
                     GetProp(err.id, "cause"), d)

(***************************************************************************)
(* JSON text, as its syntax tree.                                          *)
(***************************************************************************)
JNull == [j |-> "null"]
JStr(s) == [j |-> "string", s |-> s]
JNum(n) == [j |-> "number", n |-> n]
JObj(m) == [j |-> "object", m |-> m]
JArr(e) == [j |-> "array", e |-> e]
\* A JSON string whose characters are the (escaped) text of the tree j.
JText(j) == [j |-> "text", of |-> j]

\* Result of serializing one property: text, nothing (the property is
\* left out), or a throw; cache is the replacer's cache afterwards.
SerOk(j, cache) == [st |-> "ok", j |-> j, cache |-> cache]
SerNothing(cache) == [st |-> "nothing", cache |-> cache]
SerThrow(v) == [st |-> "throw", v |-> v]

\* cache.includes(value): an object literal made during this
\* serialization is a new object, so it is never found.
CacheIncludes(cache, v) ==
    IsRef(v) /\ \E i \in 1..Len(cache) : cache[i] = v.id

\* cache.push(value)
CachePush(cache, v) == IF IsRef(v) THEN Append(cache, v.id) ELSE cache

\* What the replacer returns: the value v that takes the node's place,
\* and the cache afterwards.
Replaced(v, cache) == [st |-> "ok", v |-> v, cache |-> cache]

\* return serializeError(replacerValue)
ReplaceError(r, cache) ==
    IF r.st = "throw" THEN SerThrow(r.v) ELSE Replaced(r.v, cache)

\* Faulty variant of the replacer: errors are treated like any object.
ReplacerWithoutErrors(replacerValue, cache, d) ==
    IF IsObject(replacerValue)
    THEN IF CacheIncludes(cache, replacerValue)
         THEN Replaced(Undefined, cache)
         ELSE Replaced(replacerValue, CachePush(cache, replacerValue))
    ELSE Replaced(replacerValue, cache)

\* The replacer function stringify passes to JSON.stringify.
Replacer(replacerValue, cache, d) ==
    IF IsError(replacerValue)
    THEN ReplaceError(serializeError(replacerValue, d), cache)
    ELSE IF IsObject(replacerValue)
    THEN IF CacheIncludes(cache, replacerValue)
         THEN Replaced(Undefined, cache)
         ELSE Replaced(replacerValue, CachePush(cache, replacerValue))
    ELSE Replaced(replacerValue, cache)

\* The properties JSON.stringify visits in an object, in order.
Members(v) ==
    IF IsLit(v)
    THEN [i \in 1..Len(v.fields) |->
             [k |-> v.fields[i][1], get |-> FALSE, v |-> v.fields[i][2]]]
    ELSE EnumerableProps(v.id)

\* JSON.stringify's SerializeJSONProperty / SerializeJSONObject /
\* SerializeJSONArray with the replacer applied at every node.  stack is
\* JSON.stringify's own set of open objects (its circularity check).
RECURSIVE SerializeJSONProperty(_, _, _, _)
RECURSIVE SerializeMembers(_, _, _, _, _, _, _)

\* The rest of SerializeJSONProperty once the replacer has returned r.
SerializeReplaced(r, stack, d) ==
    IF r.st = "throw" THEN r
    ELSE
    CASE r.v.t = "undefined" -> SerNothing(r.cache)
      [] r.v.t = "null" -> SerOk(JNull, r.cache)
      [] r.v.t = "string" -> SerOk(JStr(r.v.s), r.cache)
      [] r.v.t = "number" -> SerOk(JNum(r.v.n), r.cache)
      [] r.v.t = "text" -> SerOk(JText(r.v.j), r.cache)
      [] IsObject(r.v) ->
            IF IsRef(r.v) /\ r.v.id \in stack
            THEN SerThrow(Ref("typeErr"))
            ELSE SerializeMembers(Members(r.v), IsArray(r.v), 1, r.cache,
                    IF IsRef(r.v) THEN stack \cup {r.v.id} ELSE stack,
                    d - 1, <<>>)

SerializeJSONProperty(value, cache, stack, d) ==
    IF d = 0 THEN SerThrow(Ref("rangeErr"))
    ELSE SerializeReplaced(Replacer(value, cache, d), stack, d)

\* Faulty variant of the member loop: a member that serializes to nothing
\* is rendered as null in objects too.
AddMemberNullForNothing(acc, k, isArray, r) ==
    CASE r.st = "ok" /\ isArray -> Append(acc, r.j)
      [] r.st = "ok" /\ ~isArray -> Append(acc, <<k, r.j>>)
      [] r.st = "nothing" /\ isArray -> Append(acc, JNull)
      [] r.st = "nothing" /\ ~isArray -> Append(acc, <<k, JNull>>)

\* The members of an object or array collected so far, with the result r
\* of serializing member i added.
AddMember(acc, k, isArray, r) ==
    CASE r.st = "ok" /\ isArray -> Append(acc, r.j)
      [] r.st = "ok" /\ ~isArray -> Append(acc, <<k, r.j>>)
      [] r.st = "nothing" /\ isArray -> Append(acc, JNull)
      [] r.st = "nothing" /\ ~isArray -> acc

\* The rest of the member loop once member i has been serialized to r.
NextMember(props, isArray, i, stack, d, acc, r) ==
    IF r.st = "throw" THEN r
    ELSE SerializeMembers(props, isArray, i + 1, r.cache, stack, d,
            AddMember(acc, props[i].k, isArray, r))

SerializeMembers(props, isArray, i, cache, stack, d, acc) ==
    IF i > Len(props)
    THEN SerOk(IF isArray THEN JArr(acc) ELSE JObj(acc), cache)
    ELSE IF props[i].get THEN SerThrow(props[i].v)
    ELSE NextMember(props, isArray, i, stack, d, acc,
            SerializeJSONProperty(props[i].v, cache, stack, d))

\* stringify(value): the JSON text, undefined when the value itself is
\* left out (JSON.stringify(undefined)), or the value thrown.
StringifyResult(r) ==
    CASE r.st = "throw" -> Throw(r.v)
      [] r.st = "nothing" -> Ok(Undefined)
      [] r.st = "ok" -> Ok(r.j)

\* Faulty variant: cache is an array of the module, which still holds the
\* payloads written by earlier calls.
NewCacheKept ==
    LET delivered == SelectSeq(hookLog, LAMBDA h : IsRef(h.seen.obj))
    IN  [i \in 1..Len(delivered) |-> delivered[i].seen.obj.id]

\* const cache: unknown[] = [] -- a new array in each call of stringify.
NewCache == <<>>

stringify(value) ==
    StringifyResult(SerializeJSONProperty(value, NewCache, {}, MaxDepth))

\* Faulty variant: the logger name and the message change places.
formatMessageSwapped(logger, ts, msg, obj) ==
    stringify(Lit(<<<<"logger", Str(msg)>>, <<"ts", Str(ts)>>,
                    <<"msg", Str(logger)>>, <<"obj", obj>>>>))

\* formatMessage(args)
formatMessage(logger, ts, msg, obj) ==
    stringify(Lit(<<<<"logger", Str(logger)>>, <<"ts", Str(ts)>>,
                    <<"msg", Str(msg)>>, <<"obj", obj>>>>))

(***************************************************************************)
(* The dispatch engine.                                                    *)
(***************************************************************************)
levels == <<"debug", "info", "warn", "error">>
LogLevel == {levels[i] : i \in 1..Len(levels)}

\* levels.indexOf(level)
IndexOf(level) == CHOOSE i \in 1..Len(levels) : levels[i] = level

\* new Date().toISOString() for each instant of the model's clock.
IsoTable == <<"2024-03-25T12:00:00.000Z", "2024-03-25T12:00:00.001Z">>
Instants == 0..(Len(IsoTable) - 1)
toISOString(instant) == IsoTable[instant + 1]

\* Function names of the custom hooks a caller registers (hook.name); the
\* third one is an anonymous function.
HookNames == <<"failingHook", "workingHook", "", "auditHook">>

\* An optional argument is a sequence of at most one value.
None == <<>>
Some(v) == <<v>>

\* The arguments createLogger accepts.
LoggerArgs ==
    [logger : {"api"},
     level : {None} \cup {Some(l) : l \in LogLevel},
     hooks : {None} \cup {Some(SubSeq(HookNames, 1, n)) : n \in 0..MaxHooks}]

\* Faulty variants of createLogger: the default minimum level is warn; an
\* empty hook list falls back to the default hook.
createLoggerDefaultWarn(loggerArgs) ==
    [logger |-> loggerArgs.logger,
     level |-> IF loggerArgs.level = None THEN "warn" ELSE loggerArgs.level[1],
     hooks |-> IF loggerArgs.hooks = None THEN <<"consoleHook">>
               ELSE loggerArgs.hooks[1]]
createLoggerEmptyFallsBack(loggerArgs) ==
    [logger |-> loggerArgs.logger,
     level |-> IF loggerArgs.level = None THEN "debug" ELSE loggerArgs.level[1],
     hooks |-> IF loggerArgs.hooks = None \/ loggerArgs.hooks = Some(<<>>)
               THEN <<"consoleHook">>
               ELSE loggerArgs.hooks[1]]

\* Faulty variant of createLogger: the name lives in one place shared by
\* all loggers.
createLoggerSharedName(loggerArgs) ==
    [logger |-> "log",
     level |-> IF loggerArgs.level = None THEN "debug" ELSE loggerArgs.level[1],
     hooks |-> IF loggerArgs.hooks = None THEN <<"consoleHook">>
               ELSE loggerArgs.hooks[1]]

\* createLogger(loggerArgs): the destructuring with its defaults.
createLogger(loggerArgs) ==
    [logger |-> loggerArgs.logger,
     level |-> IF loggerArgs.level = None THEN "debug" ELSE loggerArgs.level[1],
     hooks |-> IF loggerArgs.hooks = None THEN <<"consoleHook">>
               ELSE loggerArgs.hooks[1]]

\* const dbLogger = createLogger({ logger: 'database', ... }): a second
\* logger, with a hook list of its own.
PeerArgs ==
    [logger |-> "database", level |-> Some("warn"), hooks |-> Some(<<"dbHook">>)]

\* Inputs of a call.
Messages == {"user_logged_in"}
Payloads ==
    {Undefined, Ref("user"), Ref("circular"), Ref("diamond"), Ref("listed"),
     Ref("badObj"), Ref("worseObj")}

\* What a custom hook does with the entry it receives: it may assign to
\* entry.formatted, and it may throw a value.
ThrownValues == {Ref("plainErr"), Ref("selfErr"), Ref("getErr")}
HookBehaviours ==
    {[assign |-> a, throws |-> None] : a \in BOOLEAN}
    \cup {[assign |-> FALSE, throws |-> Some(v)] : v \in ThrownValues}
Tampered == Str("tampered")

\* Promise.resolve().then(() => log[level](msg, obj)): the asynchronous
\* tasks of a program, each of which makes one call of its own.
TaskCalls ==
    <<[level |-> "info", msg |-> "concurrent message 0", obj |-> Undefined],
      [level |-> "warn", msg |-> "concurrent message 1", obj |-> Ref("errPayload")],
      [level |-> "error", msg |-> "concurrent message 2", obj |-> Ref("badObj")],
      [level |-> "debug", msg |-> "concurrent message 3", obj |-> Ref("circular")]>>
Tasks == 1..MaxTasks

NoOutcome == [op |-> "none", r |-> [st |-> "none"]]

NoEntry == [logger |-> "", ts |-> "", level |-> "", msg |-> "",
            obj |-> Undefined, formatted |-> Undefined]
NoArgs == [level |-> "", msg |-> "", obj |-> Undefined]

\* The entry object as a value handed to stringify.
EntryValue(e) ==
    Lit(<<<<"logger", Str(e.logger)>>, <<"ts", Str(e.ts)>>,
          <<"level", Str(e.level)>>, <<"msg", Str(e.msg)>>,
          <<"obj", e.obj>>, <<"formatted", e.formatted>>>>)

ConsoleWrite(stream, text) == [stream |-> stream, text |-> text]

\* Faulty variants of the level filter: none at all, and one that also
\* drops calls at the minimum level itself.
BelowLevelNever(level, configuredLevel) == FALSE
BelowLevelInclusive(level, configuredLevel) ==
    IndexOf(level) <= IndexOf(configuredLevel)

\* levels.indexOf(args.level) < levels.indexOf(configuredLevel)
BelowLevel(level, configuredLevel) ==
    IndexOf(level) < IndexOf(configuredLevel)

\* Faulty variant of the entry construction: an entry built by an earlier
\* call is used again.
BuildEntryStale(logger, ts, level, msg, obj, formatted) ==
    IF entry # NoEntry THEN entry
    ELSE [logger |-> logger, ts |-> ts, level |-> level, msg |-> msg,
          obj |-> obj, formatted |-> formatted]

\* The entry object literal of logAtLevel.
BuildEntry(logger, ts, level, msg, obj, formatted) ==
    [logger |-> logger, ts |-> ts, level |-> level, msg |-> msg,
     obj |-> obj, formatted |-> formatted]

\* Faulty variant of the hook loop: it does not advance.
NextHookRepeat(i) == i

\* for (const hook of hooks): the position after the one at i.
NextHook(i) == i + 1

\* Faulty variant: the traversal marks each object it visits with a
\* property instead of remembering it in a list of its own.
AfterSerializationMarking(h, value) ==
    IF IsRef(value)
    THEN [h EXCEPT ![value.id].props = Append(@, Hidden("visited", Num(1)))]
    ELSE h

\* The caller's objects after value has been handed to stringify or
\* serializeError.  Every assignment of the two functions has a target
\* they created themselves (cache.push on the cache array of this call,
\* serialized[key] = value and serialized.cause = ... on the object
\* literal serialized), so no object of the caller is written.
AfterSerialization(h, value) == h

\* The outer catch of logAtLevel: what it writes, or the value that
\* escapes to the caller when building the report throws.
LoggerErrorReport(err, msg, ts) ==
    LET e == serializeError(err, MaxDepth)
    IN  IF e.st = "throw" THEN e
        ELSE stringify(Lit(<<<<"ts", Str(ts)>>, <<"msg", Str("logger_error")>>,
                             <<"err", e.v>>,
                             <<"obj", Lit(<<<<"msg", Str(msg)>>>>)>>>>))

\* The catch around one hook invocation: the report it builds.
HookErrorReport(err, hookName, e, ts) ==
    LET s == serializeError(err, MaxDepth)
    IN  IF s.st = "throw" THEN s
        ELSE stringify(Lit(<<<<"ts", Str(ts)>>,
                             <<"msg", Str("logger_hook_error")>>,
                             <<"err", s.v>>,
                             <<"obj", Lit(<<<<"failedHook", Str(hookName)>>,
                                            <<"originalEntry", EntryValue(e)>>>>)>>>>))

Init ==
    /\ config \in {createLogger(a) : a \in LoggerArgs}
    /\ peer = createLogger(PeerArgs)
    /\ pending = Tasks
    /\ subject = Undefined
    /\ outcome = NoOutcome
    /\ heap = Heap
    /\ promises = <<>>
    /\ clock = 0
    /\ pc = "idle"
    /\ args = NoArgs
    /\ entry = NoEntry
    /\ idx = 0
    /\ reads = 0
    /\ console = <<>>
    /\ hookLog = <<>>
    /\ result = "none"
    /\ ncalls = 0

\* Time passes.
Tick ==
    /\ clock + 1 \in Instants
    /\ clock' = clock + 1
    /\ UNCHANGED <<config, pc, args, entry, idx, reads, console, hookLog,
                   result, ncalls, pending, peer, subject, outcome, heap,
                   promises>>

\* The end of a call through the outer catch: err was thrown outside the
\* per-hook catch; nReads clock reads were made before.
OuterCatch(err, msg, nReads, written) ==
    LET report == LoggerErrorReport(err, msg, toISOString(clock))
    IN  /\ reads' = nReads + 1
        /\ pc' = "idle"
        /\ IF report.st = "throw"
           THEN /\ console' = written
                /\ result' = "threw"
           ELSE /\ console' = Append(written, ConsoleWrite("error", Text(report.v)))
                /\ result' = "returned"

\* logger[level](msg, obj): logAtLevel up to the start of the hook loop.
\* seenConsole and seenHooks are the observations kept from earlier calls.
Call(level, msg, obj, seenConsole, seenHooks) ==
    /\ pc = "idle"
    /\ ncalls' = ncalls + 1
    /\ args' = [level |-> level, msg |-> msg, obj |-> obj]
    /\ hookLog' = seenHooks
    /\ idx' = 1
    /\ UNCHANGED <<config, clock, peer, subject, outcome, promises>>
    /\ heap' = IF BelowLevel(level, config.level) THEN heap
               ELSE AfterSerialization(heap, obj)
    /\ IF BelowLevel(level, config.level)
       THEN /\ pc' = "idle"
            /\ result' = "returned"
            /\ reads' = 0
            /\ console' = seenConsole
            /\ entry' = NoEntry
       ELSE LET ts == toISOString(clock)
                formatted == formatMessage(config.logger, ts, msg, obj)
            IN  IF formatted.st = "throw"
                THEN /\ entry' = NoEntry
                     /\ OuterCatch(formatted.v, msg, 1, seenConsole)
                ELSE /\ entry' = BuildEntry(config.logger, ts, level, msg, obj,
                                           Text(formatted.v))
                     /\ pc' = "hooks"
                     /\ result' = "running"
                     /\ reads' = 1
                     /\ console' = seenConsole

\* A call observed on its own: the observations start afresh.
LogAtLevel(level, msg, obj) ==
    Call(level, msg, obj, <<>>, <<>>) /\ UNCHANGED pending

\* One iteration of the hook loop: hook(entry) and its catch.
InvokeHook(b) ==
    /\ pc = "hooks"
    /\ idx <= Len(config.hooks)
    /\ LET hook == config.hooks[idx]
           seen == entry
           after == IF hook # "consoleHook" /\ b.assign
                    THEN [entry EXCEPT !.formatted = Tampered] ELSE entry
       IN  /\ hookLog' = Append(hookLog,
                [call |-> ncalls, pos |-> idx, name |-> hook, seen |-> seen,
                 threw |-> hook # "consoleHook" /\ b.throws # None])
           /\ entry' = after
           /\ UNCHANGED <<config, clock, args, ncalls, pending, peer, subject,
                          outcome, promises>>
           /\ heap' = IF hook # "consoleHook" /\ b.throws # None
                      THEN AfterSerialization(
                              AfterSerialization(heap, b.throws[1]), entry.obj)
                      ELSE heap
           /\ IF hook = "consoleHook"
              THEN \* console[args.level](args.formatted)
                   /\ b = [assign |-> FALSE, throws |-> None]
                   /\ console' = Append(console,
                                    ConsoleWrite(seen.level, seen.formatted))
                   /\ idx' = NextHook(idx)
                   /\ UNCHANGED <<pc, reads, result>>
              ELSE IF b.throws = None
              THEN /\ idx' = NextHook(idx)
                   /\ UNCHANGED <<pc, reads, console, result>>
              ELSE LET report == HookErrorReport(b.throws[1], hook, after,
                                                 toISOString(clock))
                   IN  IF report.st = "throw"
                       THEN /\ idx' = idx
                            /\ OuterCatch(report.v, args.msg, reads + 1, console)
                       ELSE /\ console' = Append(console,
                                    ConsoleWrite("error", Text(report.v)))
                            /\ reads' = reads + 1
                            /\ idx' = NextHook(idx)
                            /\ UNCHANGED <<pc, result>>

\* The hook loop is over: logAtLevel returns.
Return ==
    /\ pc = "hooks"
    /\ idx > Len(config.hooks)
    /\ pc' = "idle"
    /\ result' = "returned"
    /\ UNCHANGED <<config, clock, args, entry, idx, reads, console, hookLog,
                   ncalls, pending, peer, subject, outcome, heap, promises>>

Next ==
    \/ Tick
    \/ /\ ncalls < MaxCalls
       /\ \E level \in LogLevel, msg \in Messages, obj \in Payloads :
             LogAtLevel(level, msg, obj)
    \/ \E b \in HookBehaviours : InvokeHook(b)
    \/ Return

Spec == Init /\ [][Next]_vars

(***************************************************************************)
(* A single caller issuing calls one after another on a logger whose hooks *)
(* are synchronous; the observations of all calls are kept.                *)
(***************************************************************************)
MaxSeqCalls == 2

\* The messages of the caller's program, in program order.
SeqMessages ==
    <<"first message", "second message", "third message", "fourth message">>

SyncBehaviours ==
    {[assign |-> FALSE, throws |-> None],
     [assign |-> FALSE, throws |-> Some(Ref("plainErr"))]}

LogAtLevelSeq(level, obj) ==
    /\ Call(level, SeqMessages[ncalls + 1], obj, console, hookLog)
    /\ UNCHANGED pending

NextSeq ==
    \/ /\ ncalls < MaxSeqCalls
       /\ \E level \in LogLevel : LogAtLevelSeq(level, Undefined)
    \/ \E b \in SyncBehaviours : InvokeHook(b)
    \/ Return

SpecSeq == Init /\ [][NextSeq]_vars

(***************************************************************************)
(* Independent asynchronous tasks, each making one call on the logger.     *)
(* A task runs when the event loop picks it, in any order; logAtLevel has  *)
(* no await, so the call it makes runs until it returns.                   *)
(***************************************************************************)
RunTask(t) ==
    /\ t \in pending
    /\ pending' = pending \ {t}
    /\ Call(TaskCalls[t].level, TaskCalls[t].msg, TaskCalls[t].obj,
            console, hookLog)

NextTasks ==
    \/ \E t \in Tasks : RunTask(t)
    \/ \E b \in SyncBehaviours : InvokeHook(b)
    \/ Return

SpecTasks == Init /\ [][NextTasks]_vars

(***************************************************************************)
(* Two loggers created independently, called in any interleaving.  config  *)
(* is the closure of the logger the caller uses next, peer that of the     *)
(* other one.                                                              *)
(***************************************************************************)
MaxLoggerCalls == 2

\* logger1.info(...), logger2.warn(...)
LoggerCallLevels == {"info", "warn"}

\* apiLogger.info('api message'); dbLogger.info('db message')
LoggerMessage(closure) ==
    IF closure.hooks = <<"dbHook">> THEN "db message" ELSE "api message"

\* The caller turns to the other logger.
UseOtherLogger ==
    /\ pc = "idle"
    /\ config' = peer
    /\ peer' = config
    /\ UNCHANGED <<clock, pc, args, entry, idx, reads, console, hookLog,
                   result, ncalls, pending, subject, outcome, heap, promises>>

LogOnLogger(level) ==
    /\ Call(level, LoggerMessage(config), Undefined, console, hookLog)
    /\ UNCHANGED pending

NextLoggers ==
    \/ UseOtherLogger
    \/ /\ ncalls < MaxLoggerCalls
       /\ \E level \in LoggerCallLevels : LogOnLogger(level)
    \/ \E b \in SyncBehaviours : InvokeHook(b)
    \/ Return

SpecLoggers == Init /\ [][NextLoggers]_vars

(***************************************************************************)
(* Hooks that are asynchronous functions.  hook(entry) then returns a      *)
(* promise instead of throwing; the promise settles when the work of the   *)
(* hook ends, which needs a job of its own to run.                         *)
(***************************************************************************)
\* The state of the promise at the moment the hook returns it.
PromiseStates == {"pending", "fulfilled", "rejected"}

\* Faulty variant: the loop awaits what the hook returned.
ResumesAwaiting(p) == IF p.state = "pending" THEN "awaiting" ELSE "hooks"

\* hook(entry); is an expression statement: the value the hook returned is
\* dropped and the loop goes on.
Resumes(p) == "hooks"

\* One iteration of the hook loop on an asynchronous hook: no value is
\* thrown, so the catch does not run.
InvokeAsyncHook(born) ==
    /\ pc = "hooks"
    /\ idx <= Len(config.hooks)
    /\ config.hooks[idx] # "consoleHook"
    /\ LET p == [call |-> ncalls, pos |-> idx, name |-> config.hooks[idx],
                 born |-> born, state |-> born]
       IN  /\ promises' = Append(promises, p)
           /\ pc' = Resumes(p)
    /\ hookLog' = Append(hookLog,
            [call |-> ncalls, pos |-> idx, name |-> config.hooks[idx],
             seen |-> entry, threw |-> FALSE])
    /\ idx' = NextHook(idx)
    /\ UNCHANGED <<config, clock, args, entry, reads, console, result, ncalls,
                   pending, peer, subject, outcome, heap>>

\* The work of a hook ends: its promise is fulfilled or rejected.  No code
\* of the logger is attached to the promise, and logAtLevel has no await,
\* so this happens between calls and runs nothing of the logger.
Settle(i, how) ==
    /\ pc = "idle"
    /\ i \in 1..Len(promises)
    /\ promises[i].state = "pending"
    /\ promises' = [promises EXCEPT ![i].state = how]
    /\ UNCHANGED <<config, clock, pc, args, entry, idx, reads, console,
                   hookLog, result, ncalls, pending, peer, subject, outcome,
                   heap>>

\* await logger.info('async hook message', ...)
LogAtLevelAsync(level) ==
    /\ Call(level, "async hook message", Undefined, console, hookLog)
    /\ UNCHANGED pending

\* What a call in progress does next.
CallStep ==
    \/ \E b \in SyncBehaviours : InvokeHook(b)
    \/ \E born \in PromiseStates : InvokeAsyncHook(born)
    \/ Return

NextAsync ==
    \/ /\ ncalls < MaxCalls
       /\ LogAtLevelAsync("info")
    \/ \E b \in SyncBehaviours : InvokeHook(b)
    \/ \E born \in PromiseStates : InvokeAsyncHook(born)
    \/ \E i \in 1..(MaxCalls * MaxHooks), how \in {"fulfilled", "rejected"} :
          Settle(i, how)
    \/ Return

SpecAsync == Init /\ [][NextAsync]_vars

(***************************************************************************)
(* The array passed as hooks.  The destructuring in createLogger binds     *)
(* hooks to the array of the caller itself, not to a copy, and the loop    *)
(* iterates that array as it is at each step; whoever holds the array can  *)
(* change it: the caller between calls, a hook during dispatch.            *)
(***************************************************************************)
LateHook == "lateHook"

\* The array was passed by the caller; the default array is created by
\* createLogger and nothing outside it holds a reference.
HooksPassed == config.hooks # <<"consoleHook">>

\* hooksArray.push(lateHook)
PushHook ==
    /\ HooksPassed
    /\ \A i \in 1..Len(config.hooks) : config.hooks[i] # LateHook
    /\ config' = [config EXCEPT !.hooks = Append(@, LateHook)]
    /\ UNCHANGED <<clock, pc, args, entry, idx, reads, console, hookLog,
                   result, ncalls, pending, peer, subject, outcome, heap,
                   promises>>

\* hooksArray.pop()
PopHook ==
    /\ HooksPassed
    /\ config.hooks # <<>>
    /\ config' = [config EXCEPT !.hooks = SubSeq(@, 1, Len(@) - 1)]
    /\ UNCHANGED <<clock, pc, args, entry, idx, reads, console, hookLog,
                   result, ncalls, pending, peer, subject, outcome, heap,
                   promises>>

\* Calls at level error, which every logger has enabled.
LogAtLevelHooks ==
    /\ Call("error", SeqMessages[ncalls + 1], Undefined, console, hookLog)
    /\ UNCHANGED pending

NextHooks ==
    \/ PushHook
    \/ PopHook
    \/ /\ ncalls < MaxSeqCalls
       /\ LogAtLevelHooks
    \/ \E b \in SyncBehaviours : InvokeHook(b)
    \/ Return

SpecHooks == Init /\ [][NextHooks]_vars

(***************************************************************************)
(* A caller that makes the same call again and again, among calls that     *)
(* fail; all calls are made within one instant of the clock.               *)
(***************************************************************************)
MaxRepeatCalls == 3

\* { userId: 123 }, and a payload whose accessor throws.
RepeatPayloads == {Ref("user"), Ref("badObj")}

LogAtLevelRepeat(obj) ==
    /\ Call("info", "user_logged_in", obj, console, hookLog)
    /\ UNCHANGED pending

NextRepeat ==
    \/ /\ ncalls < MaxRepeatCalls
       /\ \E obj \in RepeatPayloads : LogAtLevelRepeat(obj)
    \/ \E b \in SyncBehaviours : InvokeHook(b)
    \/ Return

SpecRepeat == Init /\ [][NextRepeat]_vars

(***************************************************************************)
(* The functions of the module called on their own, on one value.          *)
(***************************************************************************)
\* The values they are called on.
Subjects ==
    {Undefined, Null, Str("oops"), Str(""), Num(0), Num(42)}
    \cup {Ref(id) : id \in DOMAIN Heap}

InitFunctions ==
    /\ config = createLogger([logger |-> "api", level |-> None, hooks |-> None])
    /\ peer = createLogger(PeerArgs)
    /\ clock = 0
    /\ pc = "idle"
    /\ args = NoArgs
    /\ entry = NoEntry
    /\ idx = 0
    /\ reads = 0
    /\ console = <<>>
    /\ hookLog = <<>>
    /\ result = "none"
    /\ ncalls = 0
    /\ pending = {}
    /\ subject \in Subjects
    /\ outcome = NoOutcome
    /\ heap = Heap
    /\ promises = <<>>

engine == <<config, clock, pc, args, entry, idx, reads, console, hookLog,
            result, ncalls, pending, peer, promises>>

\* serializeError(subject)
ApplySerializeError ==
    /\ outcome = NoOutcome
    /\ outcome' = [op |-> "serializeError",
                   r |-> serializeError(subject, MaxDepth)]
    /\ heap' = AfterSerialization(heap, subject)
    /\ UNCHANGED <<engine, subject>>

\* stringify(subject)
ApplyStringify ==
    /\ outcome = NoOutcome
    /\ outcome' = [op |-> "stringify", r |-> stringify(subject)]
    /\ heap' = AfterSerialization(heap, subject)
    /\ UNCHANGED <<engine, subject>>

\* formatMessage({ logger, ts, msg, obj: subject })
ApplyFormatMessage ==
    /\ outcome = NoOutcome
    /\ outcome' = [op |-> "formatMessage",
                   r |-> formatMessage(config.logger, toISOString(clock),
                                       "user_logged_in", subject)]
    /\ heap' = AfterSerialization(heap, subject)
    /\ UNCHANGED <<engine, subject>>

NextFunctions == ApplySerializeError \/ ApplyStringify \/ ApplyFormatMessage

SpecFunctions == InitFunctions /\ [][NextFunctions]_vars

(***************************************************************************)
(* Observations used by the properties.                                    *)
(***************************************************************************)
\* The current call has ended.
Finished == pc = "idle" /\ ncalls > 0

\* The level of the current call is below the configured minimum.
CallBelowMinimum == IndexOf(args.level) < IndexOf(config.level)

\* Formatting the record of the current call does not throw.
PayloadFormats ==
    formatMessage(config.logger, toISOString(0), args.msg, args.obj).st = "ok"

\* Member k of a JSON object.
JHas(j, k) == j.j = "object" /\ \E i \in 1..Len(j.m) : j.m[i][1] = k
JGet(j, k) == j.m[CHOOSE i \in 1..Len(j.m) : j.m[i][1] = k][2]

\* A record the engine wrote to console.error with the given msg.
IsReport(w, msg) ==
    /\ w.stream = "error"
    /\ w.text.t = "text"
    /\ JHas(w.text.j, "msg")
    /\ JGet(w.text.j, "msg") = JStr(msg)
    /\ JHas(w.text.j, "err")
IsHookErrorReport(w) == IsReport(w, "logger_hook_error")
IsLoggerErrorReport(w) == IsReport(w, "logger_error")

HookErrorReports == SelectSeq(console, IsHookErrorReport)
LoggerErrorReports == SelectSeq(console, IsLoggerErrorReport)
ThrowingInvocations == SelectSeq(hookLog, LAMBDA h : h.threw)

\* Every configured hook was invoked once, in the order of the list.
EveryHookInvokedOnce ==
    /\ Len(hookLog) = Len(config.hooks)
    /\ \A k \in 1..Len(hookLog) : hookLog[k].pos = k

(***************************************************************************)
(* C1: a call below the configured minimum level invokes no hook and       *)
(* writes nothing to the console; a call at or above it whose record       *)
(* formats reaches the hooks, and invokes every one of them when none      *)
(* throws.                                                                 *)
(***************************************************************************)
C1_LevelFilter ==
    Finished =>
        IF CallBelowMinimum
        THEN hookLog = <<>> /\ console = <<>>
        ELSE PayloadFormats =>
                /\ config.hooks # <<>> => hookLog # <<>>
                /\ ThrowingInvocations = <<>> => EveryHookInvokedOnce

\* A call at level info on a logger with minimum level warn and two hooks
\* has ended.
C1_Witness ==
    /\ Finished
    /\ args.level = "info"
    /\ config.level = "warn"
    /\ Len(config.hooks) = 2

(***************************************************************************)
(* C2: an enabled call whose record formats invokes every hook of the      *)
(* list exactly once, whichever of them throw.                             *)
(***************************************************************************)
C2_ThrowingHookDoesNotStopOthers ==
    (Finished /\ ~CallBelowMinimum /\ PayloadFormats) => EveryHookInvokedOnce

(***************************************************************************)
(* C3: no call ends by throwing to its caller.                             *)
(***************************************************************************)
C3_CallReturnsNormally == result # "threw"

(***************************************************************************)
(* C4: each hook that threw during the call has exactly one                *)
(* logger_hook_error record on the error stream, naming it as failedHook   *)
(* and carrying the entry as originalEntry, and no hook is handed such a   *)
(* record.                                                                 *)
(***************************************************************************)
C4_OneReportPerThrowingHook ==
    Finished =>
        /\ Len(HookErrorReports) = Len(ThrowingInvocations)
        /\ \A i \in 1..Len(HookErrorReports) :
              /\ i <= Len(ThrowingInvocations)
              /\ JGet(HookErrorReports[i].text.j, "obj").m[1]
                    = <<"failedHook", JStr(ThrowingInvocations[i].name)>>
              /\ JHas(JGet(HookErrorReports[i].text.j, "obj"), "originalEntry")
        /\ \A k \in 1..Len(hookLog) : hookLog[k].seen.msg # "logger_hook_error"

(***************************************************************************)
(* C5: when formatting the record of an enabled call throws, no hook is    *)
(* invoked and the console holds exactly one record, a logger_error on     *)
(* the error stream with obj = { msg: the call's message }.                *)
(***************************************************************************)
C5_FormatFailureReportedOnce ==
    (Finished /\ ~CallBelowMinimum /\ ~PayloadFormats) =>
        /\ hookLog = <<>>
        /\ Len(console) = 1
        /\ IsLoggerErrorReport(console[1])
        /\ JGet(console[1].text.j, "obj") = JObj(<<<<"msg", JStr(args.msg)>>>>)

(***************************************************************************)
(* C6: within a call the hooks are invoked in the order of the configured  *)
(* list: the k-th invocation is that of the hook at position k.            *)
(***************************************************************************)
C6_HooksInListOrder ==
    \A k \in 1..Len(hookLog) :
        /\ hookLog[k].pos = k
        /\ k <= Len(config.hooks)
        /\ hookLog[k].name = config.hooks[k]

\* Two hooks have been invoked, the first of which threw.
C6_Witness ==
    /\ Len(hookLog) = 2
    /\ hookLog[1].threw
    /\ hookLog[1].name = "failingHook"
    /\ hookLog[2].name = "workingHook"

(***************************************************************************)
(* C7: all hooks invoked in a call observe the same argument values.       *)
(***************************************************************************)
C7_SameArgsForEveryHook ==
    \A i, k \in 1..Len(hookLog) : hookLog[i].seen = hookLog[k].seen

(***************************************************************************)
(* C8: a payload of plain objects and arrays with a reference cycle is     *)
(* formatted without throwing, with the back-reference left out and every  *)
(* other key of the payload kept.                                          *)
(***************************************************************************)
CyclicPayloads == {Ref("circular"), Ref("diamond"), Ref("listed")}

C8_CycleElidedSiblingsKept ==
    (ncalls > 0 /\ ~CallBelowMinimum /\ args.obj \in CyclicPayloads) =>
        /\ entry # NoEntry
        /\ (pc = "hooks" /\ hookLog = <<>>) =>
              \A i \in 1..Len(Heap[args.obj.id].props) :
                 LET p == Heap[args.obj.id].props[i]
                 IN  JHas(JGet(entry.formatted.j, "obj"), p.k)
                        <=> p.v # args.obj

(***************************************************************************)
(* C9: a call below the configured minimum level reads no clock and        *)
(* traverses no payload: it returns at once with no hook invoked and       *)
(* nothing written, even when the payload has an accessor that throws.     *)
(***************************************************************************)
C9_FilterBeforeAnyWork ==
    (ncalls > 0 /\ CallBelowMinimum) =>
        /\ reads = 0
        /\ entry = NoEntry
        /\ hookLog = <<>>
        /\ console = <<>>
        /\ pc = "idle"
        /\ result = "returned"

\* A filtered call with a payload whose accessor throws has ended.
C9_Witness ==
    /\ Finished
    /\ CallBelowMinimum
    /\ args.obj = Ref("badObj")
    /\ config.hooks # <<>>

(***************************************************************************)
(* C10: for calls issued one after another on a logger with synchronous    *)
(* hooks, every hook invocation of a call precedes every hook invocation   *)
(* of the next call, and each invocation carries the message of its call.  *)
(***************************************************************************)
C10_CallOrderPreserved ==
    /\ \A i, k \in 1..Len(hookLog) :
          i < k => hookLog[i].call <= hookLog[k].call
    /\ \A i \in 1..Len(hookLog) :
          hookLog[i].seen.msg = SeqMessages[hookLog[i].call]

\* Two hooks have each received the records of two calls.
C10_Witness ==
    /\ Len(hookLog) = 4
    /\ hookLog[1].call = 1 /\ hookLog[2].call = 1
    /\ hookLog[3].call = 2 /\ hookLog[4].call = 2
    /\ hookLog[1].seen.msg = "first message"
    /\ hookLog[4].seen.msg = "second message"

(***************************************************************************)
(* C11: when calls are made from independent asynchronous tasks, the hook  *)
(* invocations of one call are never separated by those of another, every  *)
(* record a hook receives has the level, message and payload of one and    *)
(* the same task (also inside its formatted text), and every finished,     *)
(* enabled call whose record formats has reached each hook exactly once.   *)
(***************************************************************************)
\* The call of task t has been made and has ended.
TaskFinished(t) ==
    t \notin pending /\ (pc = "idle" \/ args.msg # TaskCalls[t].msg)

\* The call of task t passes the level filter and its record formats.
TaskDelivers(t) ==
    /\ ~(IndexOf(TaskCalls[t].level) < IndexOf(config.level))
    /\ formatMessage(config.logger, toISOString(0), TaskCalls[t].msg,
                     TaskCalls[t].obj).st = "ok"

\* The record is the one of task t.
RecordOfTask(seen, t) ==
    /\ seen.level = TaskCalls[t].level
    /\ seen.msg = TaskCalls[t].msg
    /\ seen.obj = TaskCalls[t].obj
    /\ seen.formatted.t = "text"
    /\ JGet(seen.formatted.j, "msg") = JStr(TaskCalls[t].msg)
    /\ JHas(seen.formatted.j, "obj") <=> TaskCalls[t].obj # Undefined

ApiLogger == IF config.hooks = PeerArgs.hooks[1] THEN peer ELSE config

RecordOfLogger(h, name, msg, level, hooks) ==
    /\ h.seen.logger = name
    /\ JGet(h.seen.formatted.j, "logger") = JStr(name)
    /\ h.seen.msg = msg
    /\ IndexOf(h.seen.level) >= IndexOf(level)
    /\ h.pos <= Len(hooks)
    /\ h.name = hooks[h.pos]

RecordsCarryOwnLogger ==
    \A i \in 1..Len(hookLog) :
        IF hookLog[i].name \in {PeerArgs.hooks[1][k] : k \in 1..Len(PeerArgs.hooks[1])}
        THEN RecordOfLogger(hookLog[i], PeerArgs.logger, "db message",
                            PeerArgs.level[1], PeerArgs.hooks[1])
        ELSE RecordOfLogger(hookLog[i], "api", "api message",
                            ApiLogger.level, ApiLogger.hooks)

C12_LoggersAreIndependent ==
    /\ []RecordsCarryOwnLogger
    /\ [][{config', peer'} = {config, peer}]_vars

\* A call on the second logger was followed by a call on the first, and
\* each has reached the hooks of its logger.
C12_Witness ==
    /\ pc = "idle"
    /\ Len(hookLog) = 3
    /\ hookLog[1].seen.logger = "database" /\ hookLog[1].call = 1
    /\ hookLog[2].seen.logger = "api" /\ hookLog[2].call = 2
    /\ hookLog[3].seen.logger = "api" /\ hookLog[3].call = 2

(***************************************************************************)
(* C13: in every record handed to a hook, each error object of the payload *)
(* that the formatted text reaches, at any depth, in objects, arrays and   *)
(* cause chains, appears there as its normalized form (name, message,      *)
(* stack, extra properties, cause), while the obj field is the caller's    *)
(* own payload, whose error properties still hold the error objects.       *)
(***************************************************************************)
\* The JSON text of a primitive value.
JOf(v) ==
    CASE v.t = "string" -> JStr(v.s)
      [] v.t = "number" -> JNum(v.n)
      [] v.t = "null" -> JNull

IsPrimitive(v) == v.t \in {"string", "number", "null"}

ErrorCoreKeys == {"name", "message", "stack", "cause"}

RECURSIVE Normalized(_, _, _)
\* j is the text of the normalized form of the error object id.
Normalized(j, id, d) ==
    /\ d > 0
    /\ j.j = "object"
    /\ \A k \in {"name", "message", "stack"} :
          JHas(j, k) /\ JGet(j, k) = JOf(GetProp(id, k).v)
    /\ \A i \in 1..Len(Heap[id].props) :
          (/\ Heap[id].props[i].enum
           /\ Heap[id].props[i].k \notin ErrorCoreKeys
           /\ IsPrimitive(Heap[id].props[i].v))
             => /\ JHas(j, Heap[id].props[i].k)
                /\ JGet(j, Heap[id].props[i].k) = JOf(Heap[id].props[i].v)
    /\ IsError(GetProp(id, "cause").v)
          => /\ JHas(j, "cause")
             /\ Normalized(JGet(j, "cause"), GetProp(id, "cause").v.id, d - 1)

RECURSIVE Substituted(_, _, _)
\* In the text j of the value v, every error object is replaced by its
\* normalized form.
Substituted(j, v, d) ==
    /\ d > 0
    /\ IF IsError(v) THEN Normalized(j, v.id, d)
       ELSE IF IsRef(v) /\ Heap[v.id].kind = "object" /\ j.j = "object"
       THEN \A i \in 1..Len(Heap[v.id].props) :
               /\ IsError(Heap[v.id].props[i].v) => JHas(j, Heap[v.id].props[i].k)
               /\ JHas(j, Heap[v.id].props[i].k)
                     => Substituted(JGet(j, Heap[v.id].props[i].k),
                                    Heap[v.id].props[i].v, d - 1)
       ELSE IF IsArray(v) /\ j.j = "array"
       THEN /\ Len(j.e) = Len(Heap[v.id].props)
            /\ \A i \in 1..Len(j.e) :
                  Substituted(j.e[i], Heap[v.id].props[i].v, d - 1)
       ELSE TRUE

\* The properties of the object v that hold error objects.
ErrorProps(v) ==
    {i \in 1..Len(Heap[v.id].props) : IsError(Heap[v.id].props[i].v)}

C13_ErrorsNormalizedInTextOnly ==
    \A i \in 1..Len(hookLog) :
        IsRef(hookLog[i].seen.obj) =>
            /\ JHas(hookLog[i].seen.formatted.j, "obj")
            /\ Substituted(JGet(hookLog[i].seen.formatted.j, "obj"),
                           hookLog[i].seen.obj, MaxDepth)
            /\ \E t \in Tasks : /\ hookLog[i].seen.msg = TaskCalls[t].msg
                                /\ hookLog[i].seen.obj = TaskCalls[t].obj

\* A hook has received the record of a payload holding error objects
\* directly, in a nested object and in an array.
C13_Witness ==
    \E i \in 1..Len(hookLog) :
        /\ hookLog[i].name # "consoleHook"
        /\ hookLog[i].seen.obj = Ref("errPayload")
        /\ ErrorProps(hookLog[i].seen.obj) # {}
        /\ IsError(GetProp("request", "failure").v)
        /\ IsError(GetProp("errList", "0").v)

(***************************************************************************)
(* C14: in the text formatMessage produces, every object of the payload    *)
(* that is written out, at any depth, has each key whose value is null     *)
(* written as JSON null and no key whose value is undefined; without a     *)
(* payload the text has exactly the keys logger, ts, msg, in that order.   *)
(***************************************************************************)
RECURSIVE NullishAgrees(_, _, _)
NullishAgrees(j, v, d) ==
    /\ d > 0
    /\ IF IsRef(v) /\ Heap[v.id].kind = "object" /\ j.j = "object"
       THEN \A i \in 1..Len(Heap[v.id].props) :
               /\ Heap[v.id].props[i].v = Null
                     => /\ JHas(j, Heap[v.id].props[i].k)
                        /\ JGet(j, Heap[v.id].props[i].k) = JNull
               /\ Heap[v.id].props[i].v = Undefined
                     => ~JHas(j, Heap[v.id].props[i].k)
               /\ JHas(j, Heap[v.id].props[i].k)
                     => NullishAgrees(JGet(j, Heap[v.id].props[i].k),
                                      Heap[v.id].props[i].v, d - 1)
       ELSE IF IsArray(v) /\ j.j = "array"
       THEN \A i \in 1..Len(j.e) :
               NullishAgrees(j.e[i], Heap[v.id].props[i].v, d - 1)
       ELSE TRUE

\* The keys of a JSON object, in the order they are written.
JKeys(j) == [i \in 1..Len(j.m) |-> j.m[i][1]]

\* The errors of Heap that hold themselves in an enumerable property.
SelfReachingErrors ==
    {id \in DOMAIN Heap :
        /\ Heap[id].kind = "error"
        /\ \E i \in 1..Len(Heap[id].props) :
              /\ Heap[id].props[i].enum
              /\ ~Heap[id].props[i].get
              /\ Heap[id].props[i].v = Ref(id)}

\* The object v holds such an error in one of its properties.
HoldsSelfReachingError(v) ==
    /\ IsRef(v)
    /\ \E i \in 1..Len(Heap[v.id].props) :
          /\ ~Heap[v.id].props[i].get
          /\ IsRef(Heap[v.id].props[i].v)
          /\ Heap[v.id].props[i].v.id \in SelfReachingErrors

\* The payload is a plain object none of whose accessors throws, and that
\* holds no error reachable from itself.
FormatsAsObject(v) ==
    /\ IsRef(v)
    /\ Heap[v.id].kind = "object"
    /\ \A i \in 1..Len(Heap[v.id].props) : ~Heap[v.id].props[i].get
    /\ ~HoldsSelfReachingError(v)

C14_NullKeptUndefinedDropped ==
    outcome.op = "formatMessage" =>
        /\ subject = Undefined =>
              /\ outcome.r.st = "ok"
              /\ JKeys(outcome.r.v) = <<"logger", "ts", "msg">>
        /\ FormatsAsObject(subject) =>
              /\ outcome.r.st = "ok"
              /\ JKeys(outcome.r.v) = <<"logger", "ts", "msg", "obj">>
              /\ NullishAgrees(JGet(outcome.r.v, "obj"), subject, MaxDepth)

\* formatMessage was applied to { b: undefined, inner: { a: null,
\* b: undefined }, c: null, items: [...] }.
C14_Witness ==
    /\ outcome.op = "formatMessage"
    /\ subject = Ref("nested")
    /\ GetProp("nullish", "a").v = Null
    /\ GetProp("nullish", "b").v = Undefined
    /\ JHas(JGet(outcome.r.v, "obj"), "inner")

(***************************************************************************)
(* C15: serializeError of a value that is not an error object (undefined,  *)
(* null, a string, a number, a plain object, an array) returns exactly     *)
(* { name: "NonError", message: String(value) }.                           *)
(***************************************************************************)
C15_NonErrorNormalized ==
    (outcome.op = "serializeError" /\ ~IsError(subject)) =>
        /\ outcome.r = Ok(Lit(<<<<"name", Str("NonError")>>,
                                 <<"message", Str(StringOf(subject))>>>>))
        /\ subject = Str("oops") => outcome.r.v.fields[2][2] = Str("oops")
        /\ subject = Num(42) => outcome.r.v.fields[2][2] = Str("42")
        /\ subject = Null => outcome.r.v.fields[2][2] = Str("null")
        /\ subject = Undefined => outcome.r.v.fields[2][2] = Str("undefined")
        /\ subject = Ref("user")
              => outcome.r.v.fields[2][2] = Str("[object Object]")

\* serializeError was applied to a plain object.
C15_Witness ==
    /\ outcome.op = "serializeError"
    /\ subject = Ref("user")
    /\ ~IsError(subject)

(***************************************************************************)
(* C16: the result of serializeError for an error object starts with       *)
(* name, message and stack holding what err.name, err.message and          *)
(* err.stack read, each key once, also when the error has own enumerable   *)
(* properties called name, message or stack.                               *)
(***************************************************************************)
\* The own enumerable keys of the error that are core fields.
ShadowingKeys(id) ==
    {EnumerableProps(id)[i].k : i \in 1..Len(EnumerableProps(id))}
        \cap {"name", "message", "stack"}

C16_CoreFieldsSetFirstWin ==
    (outcome.op = "serializeError" /\ IsError(subject) /\ outcome.r.st = "ok") =>
        /\ outcome.r.v.fields[1] = <<"name", GetProp(subject.id, "name").v>>
        /\ outcome.r.v.fields[2] = <<"message", GetProp(subject.id, "message").v>>
        /\ outcome.r.v.fields[3] = <<"stack", GetProp(subject.id, "stack").v>>
        /\ \A i, k \in 1..Len(outcome.r.v.fields) :
              outcome.r.v.fields[i][1] = outcome.r.v.fields[k][1] => i = k

\* serializeError was applied to an error with an own enumerable name.
C16_Witness ==
    /\ outcome.op = "serializeError"
    /\ subject = Ref("namedErr")
    /\ ShadowingKeys("namedErr") = {"name"}
    /\ outcome.r.st = "ok"
    /\ outcome.r.v.fields[1] = <<"name", Str("CustomError")>>

(***************************************************************************)
(* C17: serializeError of the outermost error of a chain of errors linked  *)
(* by cause yields nested cause objects, one per error of the chain, each  *)
(* with the name and message of its error; a cause that is not an error    *)
(* object is copied as it is, and an undefined cause gives no cause key.   *)
(***************************************************************************)
\* The value of key k of an object literal.
FieldOf(fields, k) ==
    fields[CHOOSE i \in 1..Len(fields) : fields[i][1] = k][2]

RECURSIVE CauseChainMatches(_, _, _)
CauseChainMatches(fields, id, d) ==
    /\ d > 0
    /\ FieldOf(fields, "name") = GetProp(id, "name").v
    /\ FieldOf(fields, "message") = GetProp(id, "message").v
    /\ IF GetProp(id, "cause").v = Undefined
       THEN "cause" \notin Keys(fields)
       ELSE /\ "cause" \in Keys(fields)
            /\ IF IsError(GetProp(id, "cause").v)
               THEN /\ IsLit(FieldOf(fields, "cause"))
                    /\ CauseChainMatches(FieldOf(fields, "cause").fields,
                                         GetProp(id, "cause").v.id, d - 1)
               ELSE FieldOf(fields, "cause") = GetProp(id, "cause").v

C17_CauseChainNested ==
    (outcome.op = "serializeError" /\ IsError(subject) /\ outcome.r.st = "ok") =>
        CauseChainMatches(outcome.r.v.fields, subject.id, MaxDepth)

\* serializeError was applied to the outermost error of a chain of three.
C17_Witness ==
    /\ outcome.op = "serializeError"
    /\ subject = Ref("topErr")
    /\ GetProp("topErr", "cause").v = Ref("outerErr")
    /\ GetProp("outerErr", "cause").v = Ref("plainErr")
    /\ outcome.r.st = "ok"

(***************************************************************************)
(* C18: a logger created with only a name has minimum level debug and the  *)
(* default console hook as its only hook; no call on it is filtered, and   *)
(* a call whose record formats invokes that hook once, which writes the    *)
(* formatted text once, to the console stream named by the call's level:   *)
(* that write is all the console receives.                                 *)
(***************************************************************************)
\* createLogger({ logger: 'api' })
NameOnlyLogger ==
    createLogger([logger |-> "api", level |-> None, hooks |-> None])

C18_DefaultsDeliverToOwnStream ==
    /\ NameOnlyLogger.level = "debug"
    /\ NameOnlyLogger.hooks = <<"consoleHook">>
    /\ (config = NameOnlyLogger /\ Finished) =>
          /\ ~CallBelowMinimum
          /\ PayloadFormats =>
                /\ Len(hookLog) = 1
                /\ hookLog[1].name = "consoleHook"
                /\ console = <<ConsoleWrite(args.level, entry.formatted)>>
                /\ entry.formatted
                      = Text(formatMessage(config.logger, entry.ts, args.msg,
                                           args.obj).v)
                /\ result = "returned"

\* A debug call with a payload on a logger created with only a name has
\* ended.
C18_Witness ==
    /\ config = NameOnlyLogger
    /\ Finished
    /\ args.level = "debug"
    /\ args.obj = Ref("user")
    /\ Len(console) = 1

(***************************************************************************)
(* C19: a logger created with an empty hook list has no hook at all: an    *)
(* enabled call whose record formats builds the record, invokes no hook,   *)
(* writes nothing to any console stream and returns.                       *)
(***************************************************************************)
\* createLogger({ logger: 'api', hooks: [] })
NoHooksLogger ==
    createLogger([logger |-> "api", level |-> None, hooks |-> Some(<<>>)])

C19_EmptyHookListDeliversNowhere ==
    /\ NoHooksLogger.hooks = <<>>
    /\ (config.hooks = <<>> /\ ncalls > 0 /\ ~CallBelowMinimum /\ PayloadFormats) =>
          /\ hookLog = <<>>
          /\ console = <<>>
          /\ entry.formatted
                = Text(formatMessage(config.logger, entry.ts, args.msg,
                                     args.obj).v)
          /\ Finished => result = "returned"

\* An enabled call with a payload on a logger without hooks has ended.
C19_Witness ==
    /\ config = NoHooksLogger
    /\ Finished
    /\ ~CallBelowMinimum
    /\ args.obj = Ref("user")
    /\ entry # NoEntry

HooksInvokedBy(c) ==
    LET ofCall == SelectSeq(hookLog, LAMBDA h : h.call = c)
    IN  [i \in 1..Len(ofCall) |-> ofCall[i].name]

C22_HookListFixed ==
    /\ \A i \in 1..Len(hookLog) : hookLog[i].name # LateHook
    /\ Finished =>
          \A c, d \in 1..ncalls : HooksInvokedBy(c) = HooksInvokedBy(d)

(***************************************************************************)
(* C23: serializeError never throws: whatever value it is called on, it    *)
(* gives a result.                                                         *)
(***************************************************************************)
C23_SerializeErrorNeverThrows ==
    outcome.op = "serializeError" => outcome.r.st = "ok"

(***************************************************************************)
(* C26: A payload that holds an error reachable from itself formats        *)
(* without throwing, and the repeated reference is omitted from the        *)
(* structure written in place of the error.                                *)
(***************************************************************************)
C26_SelfReachingErrorElided ==
    (outcome.op = "formatMessage" /\ HoldsSelfReachingError(subject)) =>
        /\ outcome.r.st = "ok"
        /\ \A i \in 1..Len(Heap[subject.id].props) :
              Heap[subject.id].props[i].v = Ref("selfErr") =>
                 /\ JHas(JGet(outcome.r.v, "obj"), Heap[subject.id].props[i].k)
                 /\ ~JHas(JGet(JGet(outcome.r.v, "obj"),
                               Heap[subject.id].props[i].k), "self")

(***************************************************************************)
(* C24: whatever a hook threw, and even when building the report of the    *)
(* failure fails, the hooks after it in the list are invoked and the       *)
(* error stream holds a logger_hook_error record naming the hook.          *)
(***************************************************************************)
C24_ReportFailureKeepsIsolation ==
    Finished =>
        \A k \in 1..Len(hookLog) :
            hookLog[k].threw =>
                /\ \A j \in (hookLog[k].pos + 1)..Len(config.hooks) :
                      \E i \in 1..Len(hookLog) : hookLog[i].pos = j
                /\ \E w \in 1..Len(HookErrorReports) :
                      /\ HookErrorReports[w].stream = "error"
                      /\ JGet(JGet(HookErrorReports[w].text.j, "obj"),
                              "failedHook") = JStr(hookLog[k].name)

(***************************************************************************)
(* C25: an object is in the visited list only while its own subtree is     *)
(* traversed: when two properties of an object hold the same plain         *)
(* object, which does not contain the holder, the text has both keys with  *)
(* the same value.                                                         *)
(***************************************************************************)
\* The properties i and k of object id hold one and the same plain object,
\* which has no property holding an object.
SiblingsShare(id, i, k) ==
    /\ i # k
    /\ IsRef(Heap[id].props[i].v)
    /\ Heap[id].props[i].v = Heap[id].props[k].v
    /\ Heap[Heap[id].props[i].v.id].kind = "object"
    /\ \A n \in 1..Len(Heap[Heap[id].props[i].v.id].props) :
          /\ ~Heap[Heap[id].props[i].v.id].props[n].get
          /\ ~IsObject(Heap[Heap[id].props[i].v.id].props[n].v)

C25_SharedSiblingWrittenTwice ==
    (outcome.op = "stringify" /\ outcome.r.st = "ok" /\ IsRef(subject)
        /\ Heap[subject.id].kind = "object") =>
        \A i, k \in 1..Len(Heap[subject.id].props) :
            SiblingsShare(subject.id, i, k) =>
                /\ JHas(outcome.r.v, Heap[subject.id].props[i].k)
                /\ JHas(outcome.r.v, Heap[subject.id].props[k].k)
                /\ JGet(outcome.r.v, Heap[subject.id].props[i].k)
                      = JGet(outcome.r.v, Heap[subject.id].props[k].k)

(***************************************************************************)
(* C27: every own enumerable property of an error whose key is not name,   *)
(* message, stack or cause is in the result of serializeError under the    *)
(* same key with the same value, whatever the key.                         *)
(***************************************************************************)
C27_EveryOwnKeyCopied ==
    (outcome.op = "serializeError" /\ outcome.r.st = "ok" /\ IsError(subject)) =>
        \A i \in 1..Len(Heap[subject.id].props) :
            (Heap[subject.id].props[i].enum
                /\ Heap[subject.id].props[i].k \notin ErrorCoreKeys) =>
                /\ Heap[subject.id].props[i].k \in Keys(outcome.r.v.fields)
                /\ FieldOf(outcome.r.v.fields, Heap[subject.id].props[i].k)
                      = Heap[subject.id].props[i].v

(***************************************************************************)
(* C28: an object left out because it is in the visited list leaves no     *)
(* trace in the text: in an array its slot is dropped, so the array        *)
(* written has no null where the source array holds an object.             *)
(***************************************************************************)
RECURSIVE NoNullForObject(_, _, _)
NoNullForObject(j, v, d) ==
    /\ d > 0
    /\ IF IsArray(v) /\ j.j = "array"
       THEN \A i \in 1..Len(j.e) :
               i <= Len(Heap[v.id].props) =>
                  /\ IsObject(Heap[v.id].props[i].v) => j.e[i] # JNull
                  /\ NoNullForObject(j.e[i], Heap[v.id].props[i].v, d - 1)
       ELSE IF IsRef(v) /\ Heap[v.id].kind = "object" /\ j.j = "object"
       THEN \A i \in 1..Len(Heap[v.id].props) :
               JHas(j, Heap[v.id].props[i].k) =>
                  NoNullForObject(JGet(j, Heap[v.id].props[i].k),
                                  Heap[v.id].props[i].v, d - 1)
       ELSE TRUE

C28_ElidedSlotDropped ==
    (outcome.op = "stringify" /\ outcome.r.st = "ok") =>
        NoNullForObject(outcome.r.v, subject, MaxDepth)

(***************************************************************************)
(* C29: what a call hands to the hooks depends on nothing but the          *)
(* configuration, the level, message and payload of the call and the       *)
(* instant it reads: when the call that has just ended has the level,      *)
(* message, payload and instant of an earlier call that reached a hook,    *)
(* both invoked the same hooks with the same arguments, whatever calls     *)
(* were made before and between them.                                      *)
(***************************************************************************)
\* The hook invocations of call c: which hook, and what it was handed.
RecordsOf(c) ==
    LET ofCall == SelectSeq(hookLog, LAMBDA h : h.call = c)
    IN  [i \in 1..Len(ofCall) |->
            [pos |-> ofCall[i].pos, name |-> ofCall[i].name,
             seen |-> ofCall[i].seen]]

\* The invocation h was made by a call with the inputs of the current one.
SameInputs(h) ==
    /\ h.seen.level = args.level
    /\ h.seen.msg = args.msg
    /\ h.seen.obj = args.obj
    /\ h.seen.ts = toISOString(clock)

C29_CallsAreIndependent ==
    Finished =>
        \A i \in 1..Len(hookLog) :
            (hookLog[i].call < ncalls /\ SameInputs(hookLog[i])) =>
                RecordsOf(hookLog[i].call) = RecordsOf(ncalls)

\* Three calls have ended: the first delivered the payload to two hooks,
\* of which the first threw; the second failed to format its payload; the
\* third repeated the first and delivered the same to the same hooks.
C29_Witness ==
    /\ Finished
    /\ ncalls = 3
    /\ args.obj = Ref("user")
    /\ Len(RecordsOf(1)) = 2
    /\ hookLog[1].threw
    /\ RecordsOf(2) = <<>>
    /\ Len(LoggerErrorReports) = 1
    /\ RecordsOf(3) = RecordsOf(1)
    /\ JHas(RecordsOf(3)[1].seen.formatted.j, "obj")

(***************************************************************************)
(* C30: in everything handed to a hook the fields agree with the text:     *)
(* formatted is a JSON object whose keys are logger, ts, msg and, with a   *)
(* payload, obj; its logger, ts and msg are those of the fields beside it; *)
(* level is a field only.  The clock is read once for the record of an     *)
(* enabled call, and once more for each failure report the call writes.    *)
(***************************************************************************)
\* The arguments seen by a hook agree with the text in them.
FieldsAgree(seen) ==
    /\ seen.formatted.t = "text"
    /\ seen.level \in LogLevel
    /\ JKeys(seen.formatted.j) =
          IF seen.obj = Undefined THEN <<"logger", "ts", "msg">>
          ELSE <<"logger", "ts", "msg", "obj">>
    /\ JGet(seen.formatted.j, "logger") = JStr(seen.logger)
    /\ JGet(seen.formatted.j, "ts") = JStr(seen.ts)
    /\ JGet(seen.formatted.j, "msg") = JStr(seen.msg)

\* The failure reports the current call has written.
ReportsOfCall ==
    Len(SelectSeq(hookLog, LAMBDA h : h.call = ncalls /\ h.threw))
      + (IF Finished /\ ~CallBelowMinimum /\ entry = NoEntry THEN 1 ELSE 0)

====
